---- MODULE Spec2Model ----
(***************************************************************************)
(* Model of action-bring.py: the intent handlers of the Bring shopping     *)
(* list skill (add / delete / check / read), their engine functions        *)
(* add_item_int, delete_item_int, check_list_int, and the response         *)
(* composer combine_lists / get_text_for_list / get_default_list.          *)
(*                                                                         *)
(* The remote list (BringApi) is an external service: its purchase list    *)
(* is the variable `purchase`; it can fail on any call and it can be       *)
(* changed by an external actor between two calls of a handling.           *)
(*                                                                         *)
(* A text is a sequence of tokens (strings); a template is a text whose    *)
(* placeholder tokens "{}", "{first}" and "{last}" are replaced by         *)
(* str.format.                                                             *)
(***************************************************************************)
EXTENDS Integers, Sequences, FiniteSets, TLC

(* ---------------------------------------------------------------- bounds *)
\* greatest number of slots an intent carries
MaxSlots == 3
\* greatest number of entries the external actor lets the purchase list grow to
MaxList == 2
\* greatest number of items requested in a run of two handlings
MaxRequest == 2
\* greatest length of a sequence handed to the composer together with drawn pools
MaxCompose == 2

\* the item names of the model
Names == {"milk", "eggs"}
\* the slots an intent may carry: "Items" slots with a name as raw value, and a
\* slot of another name whose raw value is a name too
Slots ==
    {[slot_name |-> "Items", raw_value |-> n] : n \in Names}
        \cup {[slot_name |-> "Amount", raw_value |-> "milk"]}

(* ------------------------------------------------------------- sequences *)
RECURSIVE SeqsUpTo(_, _)
\* all sequences over S of length at most n
SeqsUpTo(S, n) ==
    IF n = 0 THEN {<<>>}
    ELSE LET shorter == SeqsUpTo(S, n - 1)
         IN  shorter \cup {Append(s, x) : s \in {t \in shorter : Len(t) = n - 1}, x \in S}

Range(s) == {s[i] : i \in 1..Len(s)}

NoDup(s) == \A i, j \in 1..Len(s) : i # j => s[i] # s[j]

(* ------------------------------------------------ translations (i18n) *)
\* The phrase pools of translations/de.py.  Every pool is a non-empty set of
\* templates; the templates of the pools of one action carry that action's
\* key in their fixed tokens.
Pool(key) ==
    [ONE   |-> {<<key \o "_ONE_a", "{}">>, <<"{}", key \o "_ONE_b">>},
     MULTI |-> {<<key \o "_MULTI", "{}">>},
     NONE  |-> {<<key \o "_NONE">>}]

ADD == Pool("ADD")
ADD_F == Pool("ADD_F")
ADD_CONN == {<<"{}", "ADD_CONN", "{}">>}
ADD_END == {<<"ADD_END_a">>, <<"ADD_END_b">>}
ADD_WHAT == {<<"ADD_WHAT_a">>, <<"ADD_WHAT_b">>}

REM == Pool("REM")
REM_F == Pool("REM_F")
REM_CONN == {<<"{}", "REM_CONN", "{}">>}
REM_END == {<<"REM_END">>}
REM_WHAT == {<<"REM_WHAT">>}

CHK == Pool("CHK")
CHK_F == Pool("CHK_F")
CHK_CONN == {<<"{}", "CHK_CONN", "{}">>}
CHK_END == {<<"CHK_END">>}
CHK_WHAT == {<<"CHK_WHAT">>}

READ == Pool("READ")
GENERAL_LIST == {<<"{first}", "and", "{last}">>}

(* ------------------------------------------------------------ str.format *)
\* the values that stand for an exception str.format raises; no text is one
\* of them, since no template and no item name holds these tokens
IndexError == <<"IndexError">>
KeyError == <<"KeyError">>

\* x stands for a raised exception
Raised(x) == x \in {IndexError, KeyError}

\* a + b for two texts; an exception raised while a or b was computed leaves
\* the function before the concatenation
Cat(a, b) == IF Raised(a) THEN a ELSE IF Raised(b) THEN b ELSE a \o b

\* the replacement fields with a name that a template may hold
NamedFields == {"{first}", "{last}", "{other}"}

RECURSIVE FormatPos(_, _)
\* template.format(args[1], args[2], ...): the k-th "{}" takes the k-th
\* argument and arguments left over are ignored; a "{}" without an argument
\* raises IndexError and a field with a name raises KeyError, the first such
\* field from the left deciding
FormatPos(tpl, args) ==
    IF tpl = <<>> THEN <<>>
    ELSE IF Head(tpl) = "{}"
         THEN IF args = <<>> THEN IndexError
              ELSE Cat(Head(args), FormatPos(Tail(tpl), Tail(args)))
         ELSE IF Head(tpl) \in NamedFields THEN KeyError
              ELSE Cat(<<Head(tpl)>>, FormatPos(Tail(tpl), args))

\* template.format(a, b), reached only when a and b were computed
FormatPair(tpl, a, b) ==
    IF Raised(a) THEN a ELSE IF Raised(b) THEN b ELSE FormatPos(tpl, <<a, b>>)

RECURSIVE FormatKw(_, _, _)
\* template.format(first=f, last=l): "{first}" takes f and "{last}" takes l; a
\* "{}" raises IndexError and a field of another name raises KeyError, the
\* first such field from the left deciding
FormatKw(tpl, f, l) ==
    IF tpl = <<>> THEN <<>>
    ELSE IF Head(tpl) = "{first}" THEN Cat(f, FormatKw(Tail(tpl), f, l))
    ELSE IF Head(tpl) = "{last}" THEN Cat(l, FormatKw(Tail(tpl), f, l))
    ELSE IF Head(tpl) = "{}" THEN IndexError
    ELSE IF Head(tpl) \in NamedFields THEN KeyError
    ELSE Cat(<<Head(tpl)>>, FormatKw(Tail(tpl), f, l))

RECURSIVE Join(_, _)
\* sep.join(items)
Join(sep, items) ==
    IF items = <<>> THEN <<>>
    ELSE IF Len(items) = 1 THEN <<items[1]>>
    ELSE <<items[1], sep>> \o Join(sep, Tail(items))

(* -------------------------------------------------- response composer *)
\* mutant: the MULTI test is len(items) > 2
GetDefaultListOffByOne(items) ==
    IF Len(items) > 2
    THEN {<<"MULTI", FormatKw(g, Join(", ", SubSeq(items, 1, Len(items) - 1)),
                              <<items[Len(items)]>>)>> : g \in GENERAL_LIST}
    ELSE IF Len(items) = 1 THEN {<<"ONE", <<items[1]>>>>}
    ELSE {<<"NONE", <<>>>>}

\* mutant: the join takes all items, ", ".join(items)
GetDefaultListJoinAll(items) ==
    IF Len(items) > 1
    THEN {<<"MULTI", FormatKw(g, Join(", ", items), <<items[Len(items)]>>)>> : g \in GENERAL_LIST}
    ELSE IF Len(items) = 1 THEN {<<"ONE", <<items[1]>>>>}
    ELSE {<<"NONE", <<>>>>}

\* get_default_list: the category of a sequence and its enumeration text, for
\* every draw of random.choice(i18n.GENERAL_LIST)
GetDefaultList(items) ==
    IF Len(items) > 1
    THEN {<<"MULTI", FormatKw(g, Join(", ", SubSeq(items, 1, Len(items) - 1)),
                              <<items[Len(items)]>>)>> : g \in GENERAL_LIST}
    ELSE IF Len(items) = 1 THEN {<<"ONE", <<items[1]>>>>}
    ELSE {<<"NONE", <<>>>>}

\* mutant: the chosen template is returned without .format(strout)
GetTextForListNoFormat(str, list) ==
    UNION {str[d[1]] : d \in GetDefaultList(list)}

\* get_text_for_list: every text random.choice(str[category]).format(strout) can be
GetTextForList(str, list) ==
    UNION {{IF Raised(d[2]) THEN d[2] ELSE FormatPos(t, <<d[2]>>) : t \in str[d[1]]} :
              d \in GetDefaultList(list)}

\* mutant: the else-branch draws from str_conn instead of str_end
CombineListsWrongEndPool(str_first, str_conn, str_end, str_second, first, second) ==
    LET heads == IF first # <<>> THEN GetTextForList(str_first, first) ELSE {<<>>}
        pairs == IF second # <<>>
                 THEN {<<h, t>> : h \in heads, t \in GetTextForList(str_second, second)}
                 ELSE {<<h, Cat(h, e)>> : h \in heads, e \in str_conn}
    IN
    IF first # <<>> /\ second # <<>>
    THEN {FormatPair(c, p[1], p[2]) : c \in str_conn, p \in pairs}
    ELSE {p[2] : p \in pairs}

\* mutant: the else-branch is missing, no end phrase is appended
CombineListsNoEnd(str_first, str_conn, str_end, str_second, first, second) ==
    LET heads == IF first # <<>> THEN GetTextForList(str_first, first) ELSE {<<>>}
        pairs == IF second # <<>>
                 THEN {<<h, t>> : h \in heads, t \in GetTextForList(str_second, second)}
                 ELSE {<<h, h>> : h \in heads}
    IN
    IF first # <<>> /\ second # <<>>
    THEN {FormatPair(c, p[1], p[2]) : c \in str_conn, p \in pairs}
    ELSE {p[2] : p \in pairs}

\* mutant: the end phrase is appended after the if, outside the else-branch
CombineListsEndAlways(str_first, str_conn, str_end, str_second, first, second) ==
    LET heads == IF first # <<>> THEN GetTextForList(str_first, first) ELSE {<<>>}
        pairs == IF second # <<>>
                 THEN {<<h, Cat(t, e)>> : h \in heads, t \in GetTextForList(str_second, second),
                                       e \in str_end}
                 ELSE {<<h, Cat(h, e)>> : h \in heads, e \in str_end}
    IN
    IF first # <<>> /\ second # <<>>
    THEN {FormatPair(c, p[1], p[2]) : c \in str_conn, p \in pairs}
    ELSE {p[2] : p \in pairs}

\* mutant: the arguments of the combiner are swapped, format(strout, backup)
CombineListsSwapped(str_first, str_conn, str_end, str_second, first, second) ==
    LET heads == IF first # <<>> THEN GetTextForList(str_first, first) ELSE {<<>>}
        pairs == IF second # <<>>
                 THEN {<<h, t>> : h \in heads, t \in GetTextForList(str_second, second)}
                 ELSE {<<h, Cat(h, e)>> : h \in heads, e \in str_end}
    IN
    IF first # <<>> /\ second # <<>>
    THEN {FormatPair(c, p[2], p[1]) : c \in str_conn, p \in pairs}
    ELSE {p[2] : p \in pairs}

\* mutant: the end phrase is appended only when first is filled
CombineListsEndIfFirst(str_first, str_conn, str_end, str_second, first, second) ==
    LET heads == IF first # <<>> THEN GetTextForList(str_first, first) ELSE {<<>>}
        pairs == IF second # <<>>
                 THEN {<<h, t>> : h \in heads, t \in GetTextForList(str_second, second)}
                 ELSE IF first # <<>>
                      THEN {<<h, Cat(h, e)>> : h \in heads, e \in str_end}
                      ELSE {<<h, h>> : h \in heads}
    IN
    IF first # <<>> /\ second # <<>>
    THEN {FormatPair(c, p[1], p[2]) : c \in str_conn, p \in pairs}
    ELSE {p[2] : p \in pairs}

\* mutant: backup is taken after strout was overwritten with the second text
CombineListsOverwrites(str_first, str_conn, str_end, str_second, first, second) ==
    LET heads == IF first # <<>> THEN GetTextForList(str_first, first) ELSE {<<>>}
        pairs == IF second # <<>>
                 THEN {<<t, t>> : t \in GetTextForList(str_second, second)}
                 ELSE {<<h, Cat(h, e)>> : h \in heads, e \in str_end}
    IN
    IF first # <<>> /\ second # <<>>
    THEN {FormatPair(c, p[1], p[2]) : c \in str_conn, p \in pairs}
    ELSE {p[2] : p \in pairs}

\* combine_lists: every text the function can return
CombineLists(str_first, str_conn, str_end, str_second, first, second) ==
    LET heads == IF first # <<>> THEN GetTextForList(str_first, first) ELSE {<<>>}
        \* <<backup, strout>> after the if second / else
        pairs == IF second # <<>>
                 THEN {<<h, t>> : h \in heads, t \in GetTextForList(str_second, second)}
                 ELSE {<<h, Cat(h, e)>> : h \in heads, e \in str_end}
    IN
    IF first # <<>> /\ second # <<>>
    THEN {FormatPair(c, p[1], p[2]) : c \in str_conn, p \in pairs}
    ELSE {p[2] : p \in pairs}

(* ------------------------------------------------------- remote gateway *)
\* any(entr['name'] == item for entr in list)
InList(item, list) == \E i \in 1..Len(list) : list[i] = item

\* BringApi.purchase_item(name, ""): puts the name on the purchase list
PurchaseItem(name, p) == IF InList(name, p) THEN p ELSE Append(p, name)

\* BringApi.recent_item(name): moves the name from the purchase list to recent
RecentItem(name, p) == SelectSeq(p, LAMBDA x : x # name)

(* --------------------------------------------------------------- engine *)
\* mutant: the `not` of line 44 is missing
AddCheckInverted(item, list) == InList(item, list)

\* add_item_int, line 44: the item needs to be added
AddCheck(item, list) == ~InList(item, list)

\* mutant: the test of line 57 keeps the `not` of add_item_int
RemoveCheckInverted(item, list) == ~InList(item, list)

\* mutant: the test of line 57 is always true
RemoveCheckAlways(item, list) == TRUE

\* delete_item_int, line 57: the item is there to be removed
RemoveCheck(item, list) == InList(item, list)

\* check_list_int, line 69: the item is on the list
FindCheck(item, list) == InList(item, list)

\* the condition of the loop body of the engine function of an action
Check(act, item, list) ==
    CASE act = "add" -> AddCheck(item, list)
      [] act = "del" -> RemoveCheck(item, list)
      [] act = "chk" -> FindCheck(item, list)

\* mutant: add_item_int calls recent_item instead of purchase_item
MutationForWrongCall(act) ==
    CASE act = "add" -> "recent_item"
      [] act = "del" -> "recent_item"
      [] act = "chk" -> "none"

\* mutant: check_list_int, copied from delete_item_int, keeps its recent_item call
MutationForCopied(act) ==
    CASE act = "add" -> "purchase_item"
      [] act = "del" -> "recent_item"
      [] act = "chk" -> "recent_item"

\* the Gateway mutation the engine function of an action calls in its if-branch
MutationFor(act) ==
    CASE act = "add" -> "purchase_item"
      [] act = "del" -> "recent_item"
      [] act = "chk" -> "none"

\* the effect of a Gateway mutation on the purchase list
ApplyGateway(op, name, p) ==
    CASE op = "purchase_item" -> PurchaseItem(name, p)
      [] op = "recent_item" -> RecentItem(name, p)
      [] OTHER -> p

\* mutant: the else-branch does not append
AppendResultDropsElse(matched, item, f, s) ==
    IF matched THEN <<Append(f, item), s>> ELSE <<f, s>>

\* mutant: the second append is outside the else-branch
AppendResultBoth(matched, item, f, s) ==
    IF matched THEN <<Append(f, item), Append(s, item)>> ELSE <<f, Append(s, item)>>

\* mutant: the item is inserted at the front, list.insert(0, item)
AppendResultPrepend(matched, item, f, s) ==
    IF matched THEN <<<<item>> \o f, s>> ELSE <<f, <<item>> \o s>>

\* the two append calls of the loop body: the item goes to the first sequence
\* in the if-branch and to the second in the else-branch
AppendResult(matched, item, f, s) ==
    IF matched THEN <<Append(f, item), s>> ELSE <<f, Append(s, item)>>

\* mutant: the exception is swallowed and the loop goes on with the same item
OnGatewayFailureContinue == "loop"

\* where a handling goes when a Gateway call raises: no try/except surrounds the
\* calls, so the exception leaves the engine function and the handler
OnGatewayFailure == "error"

\* mutant: the test slot.slot_name == "Items" is missing from the slot loop
ItemsOfAllSlots(sl) == [i \in 1..Len(sl) |-> sl[i].raw_value]

\* the slot loop of the handlers: the raw values of the slots named "Items"
ItemsOf(sl) ==
    LET items == SelectSeq(sl, LAMBDA s : s.slot_name = "Items")
    IN  [i \in 1..Len(items) |-> items[i].raw_value]

\* the pools a handler hands to combine_lists
PoolsFor(act) ==
    CASE act = "add" -> [first |-> ADD, conn |-> ADD_CONN, end |-> ADD_END, second |-> ADD_F]
      [] act = "del" -> [first |-> REM, conn |-> REM_CONN, end |-> REM_END, second |-> REM_F]
      [] act = "chk" -> [first |-> CHK, conn |-> CHK_CONN, end |-> CHK_END, second |-> CHK_F]

\* mutant: every handler draws from ADD_WHAT
WhatForAdd(act) == ADD_WHAT

\* the pool a handler draws from when no item was requested
WhatFor(act) ==
    CASE act = "add" -> ADD_WHAT
      [] act = "del" -> REM_WHAT
      [] act = "chk" -> CHK_WHAT

(* -------------------------------------------------------- configuration *)
\* what the process may find at CONFIG_INI when it starts: a file that parses
\* and holds the secret section with both keys ("valid"), one that parses and
\* lacks the section or a key ("no_secret"), one that parses and holds no
\* section ("empty_file"), no file or one that cannot be opened ("missing"),
\* a file configparser rejects ("malformed"), a file that is not UTF-8
\* ("undecodable")
ConfigFiles == {"valid", "no_secret", "empty_file", "missing", "malformed", "undecodable"}

\* read_configuration_file: the sections of a file that opens and parses; the
\* except clause turns IOError and configparser.Error into the empty dict;
\* the UnicodeDecodeError of a file that is not UTF-8 is not caught and
\* leaves the function
ReadConfigurationFile(file) ==
    CASE file = "valid" -> "loaded"
      [] file = "no_secret" -> "nosecret"
      [] file = "empty_file" -> "empty"
      [] file \in {"missing", "malformed"} -> "empty"
      [] file = "undecodable" -> "UnicodeDecodeError"

\* get_bring: conf['secret']['uuid'] and conf['secret']['bringlistuuid'] raise
\* KeyError on a dict without the section or a key
GetBringRaises(c) == c # "loaded"

\* the files on which __main__ reaches app.run(): all but those on which
\* read_configuration_file raises
StartedWith == {f \in ConfigFiles : ReadConfigurationFile(f) # "UnicodeDecodeError"}

(* ---------------------------------------------------------------- state *)
VARIABLES
    conf,        \* what read_configuration_file returned at startup: "loaded" (a dict
                 \* with the secret section), "nosecret" (a dict without it) or
                 \* "empty" (the empty dict); "unset" before startup
    purchase,    \* the purchase list of the remote service, a sequence of names
    pc,          \* "idle", "get_items", "loop", "done" or "error": where the handling is
    action,      \* the intent being handled: "add", "del", "chk" or "read" ("none" when idle)
    slots,       \* the slots of the intent
    itemsList,   \* the handler's itemsList
    list,        \* the engine function's snapshot, bring.get_items()['purchase']
    idx,         \* the position of the engine function's for loop in itemsList
    first,       \* added / removed / found
    second,      \* exist / failed / missing
    calls,       \* the Gateway calls of this handling, in call order
    response,    \* the text handed to EndSession when pc = "done"
    extTouched,  \* an external actor changed the list since this handling's Gateway read
    prev,        \* history: what the handling before this one was given and returned
    inbox,       \* the intents that have arrived and whose handler has not been started
    parked,      \* the handler coroutine that is suspended at an await, NoTask if none
    configFile,  \* what the process found at CONFIG_INI when it started
    strPools     \* the pools handed to the composer where it is applied to drawn
                 \* pools, NoPools elsewhere

vars == <<conf, purchase, pc, action, slots, itemsList, list, idx, first, second,
          calls, response, extTouched, prev, inbox, parked, configFile, strPools>>

Actions == {"add", "del", "chk"}

Call(op, name, ok) == [op |-> op, name |-> name, ok |-> ok]

\* the value of prev while no handling has been recorded
NoPrev ==
    [action |-> "none", itemsList |-> <<>>, list |-> <<>>, first |-> <<>>,
     second |-> <<>>, after |-> <<>>]

\* the value of response while no text has been returned
NoResponse == <<>>

\* the value of parked while no handler coroutine is suspended
NoTask ==
    [pc |-> "idle", action |-> "none", slots |-> <<>>, itemsList |-> <<>>, list |-> <<>>,
     idx |-> 1, first |-> <<>>, second |-> <<>>, calls |-> <<>>, response |-> NoResponse]

\* the value of strPools while no pools are drawn
NoPools == [first |-> <<>>, conn |-> {}, end |-> {}, second |-> <<>>]

\* mutant: the list read by the handling before is kept and used again
GetItemsCached == IF prev = NoPrev THEN purchase ELSE prev.list

\* bring.get_items()['purchase'] on the BringApi object that get_bring(conf)
\* builds for this handling: the remote list as it is now
GetItems == purchase

\* mutant: the loop body reads the remote list again for every item
SnapshotReRead == purchase

\* the snapshot the loop body tests an item against (the local `list`)
SnapshotForStep == list

Init ==
    /\ configFile \in StartedWith
    /\ strPools = NoPools
    /\ conf = ReadConfigurationFile(configFile)
    /\ purchase \in {p \in SeqsUpTo(Names, MaxList) : NoDup(p)}
    /\ pc = "idle"
    /\ action = "none"
    /\ slots = <<>>
    /\ itemsList = <<>>
    /\ list = <<>>
    /\ idx = 1
    /\ first = <<>>
    /\ second = <<>>
    /\ calls = <<>>
    /\ response = NoResponse
    /\ extTouched = FALSE
    /\ prev = NoPrev
    /\ inbox = <<>>
    /\ parked = NoTask

(* -------------------------------------------------------------- handlers *)
\* addItem / delItem / checkList up to the first Gateway call:
\* the slot loop, the len(itemsList) > 0 test and get_bring(conf)
Receive(act, sl) ==
    /\ pc = "idle"
    /\ action' = act
    /\ slots' = sl
    /\ itemsList' = ItemsOf(sl)
    /\ list' = <<>>
    /\ idx' = 1
    /\ first' = <<>>
    /\ second' = <<>>
    /\ calls' = <<>>
    /\ extTouched' = FALSE
    /\ IF ItemsOf(sl) = <<>>
       THEN /\ response' \in WhatFor(act)
            /\ pc' = "done"
       ELSE /\ response' = NoResponse
            \* get_bring(conf) raises KeyError on a dict without the secret
            /\ pc' = IF GetBringRaises(conf) THEN "error" ELSE "get_items"
    /\ UNCHANGED <<conf, purchase>>
    /\ UNCHANGED <<prev, inbox, parked, configFile, strPools>>

\* readList up to the Gateway call: read_list does not look at the intent
ReceiveRead ==
    /\ pc = "idle"
    /\ action' = "read"
    /\ pc' = IF GetBringRaises(conf) THEN "error" ELSE "get_items"
    /\ UNCHANGED <<conf, purchase, slots, itemsList, list, idx, first, second, calls,
                   response, extTouched>>
    /\ UNCHANGED <<prev, inbox, parked, configFile, strPools>>

\* bring.get_items()['purchase'] returns; read_list renders it at once
GetItemsOk ==
    /\ pc = "get_items"
    /\ list' = GetItems
    /\ calls' = Append(calls, Call("get_items", "", TRUE))
    /\ IF action = "read"
       THEN \E text \in GetTextForList(READ, GetItems) :
               \* an exception of str.format leaves read_list and the handler
               /\ response' = IF Raised(text) THEN NoResponse ELSE text
               /\ pc' = IF Raised(text) THEN "error" ELSE "done"
       ELSE /\ response' = NoResponse
            /\ pc' = "loop"
    /\ UNCHANGED <<conf, purchase, action, slots, itemsList, idx, first, second, extTouched>>
    /\ UNCHANGED <<prev, inbox, parked, configFile, strPools>>

\* bring.get_items() raises
GetItemsFail ==
    /\ pc = "get_items"
    /\ calls' = Append(calls, Call("get_items", "", FALSE))
    /\ pc' = OnGatewayFailure
    /\ UNCHANGED <<conf, purchase, action, slots, itemsList, list, idx, first, second,
                   response, extTouched>>
    /\ UNCHANGED <<prev, inbox, parked, configFile, strPools>>

\* one iteration of the for loop of add_item_int / delete_item_int /
\* check_list_int whose Gateway call, if it makes one, returns; after the last
\* iteration the handler renders the two sequences with combine_lists
LoopStep ==
    /\ pc = "loop"
    /\ idx <= Len(itemsList)
    /\ LET item == itemsList[idx]
           matched == Check(action, item, SnapshotForStep)
           op == MutationFor(action)
           result == AppendResult(matched, item, first, second)
           first2 == result[1]
           second2 == result[2]
           pools == PoolsFor(action)
       IN  /\ IF matched /\ op # "none"
              THEN /\ purchase' = ApplyGateway(op, item, purchase)
                   /\ calls' = Append(calls, Call(op, item, TRUE))
              ELSE UNCHANGED <<purchase, calls>>
           /\ first' = first2
           /\ second' = second2
           /\ IF idx = Len(itemsList)
              THEN \E text \in CombineLists(pools.first, pools.conn, pools.end,
                                             pools.second, first2, second2) :
                      \* an exception of str.format leaves combine_lists and
                      \* the handler
                      /\ response' = IF Raised(text) THEN NoResponse ELSE text
                      /\ pc' = IF Raised(text) THEN "error" ELSE "done"
                      /\ idx' = idx
              ELSE /\ response' = NoResponse
                   /\ pc' = "loop"
                   /\ idx' = idx + 1
    /\ UNCHANGED <<conf, action, slots, itemsList, list, extTouched>>
    /\ UNCHANGED <<prev, inbox, parked, configFile, strPools>>

\* the iteration's Gateway call raises: the exception leaves the handler
LoopFail ==
    /\ pc = "loop"
    /\ idx <= Len(itemsList)
    /\ Check(action, itemsList[idx], SnapshotForStep)
    /\ MutationFor(action) # "none"
    /\ calls' = Append(calls, Call(MutationFor(action), itemsList[idx], FALSE))
    /\ pc' = OnGatewayFailure
    /\ UNCHANGED <<conf, purchase, action, slots, itemsList, list, idx, first, second,
                   response, extTouched>>
    /\ UNCHANGED <<prev, inbox, parked, configFile, strPools>>

\* the handler has returned EndSession(text) or raised: the application waits
\* for the next intent, and nothing of the handling is kept
Return ==
    /\ pc \in {"done", "error"}
    /\ pc' = "idle"
    /\ action' = "none"
    /\ slots' = <<>>
    /\ itemsList' = <<>>
    /\ list' = <<>>
    /\ idx' = 1
    /\ first' = <<>>
    /\ second' = <<>>
    /\ calls' = <<>>
    /\ response' = NoResponse
    /\ extTouched' = FALSE
    /\ UNCHANGED <<conf, purchase>>
    /\ UNCHANGED <<prev, inbox, parked, configFile, strPools>>

(* -------------------------------------------------------- external actor *)
\* somebody else puts a name on the remote list
ExtAdd(n) ==
    /\ ~InList(n, purchase)
    /\ Len(purchase) < MaxList
    /\ purchase' = Append(purchase, n)
    /\ extTouched' = (extTouched \/ pc \in {"loop", "done", "error"})
    /\ UNCHANGED <<conf, pc, action, slots, itemsList, list, idx, first, second, calls,
                   response>>
    /\ UNCHANGED <<prev, inbox, parked, configFile, strPools>>

\* somebody else takes a name off the remote list
ExtRemove(n) ==
    /\ InList(n, purchase)
    /\ purchase' = RecentItem(n, purchase)
    /\ extTouched' = (extTouched \/ pc \in {"loop", "done", "error"})
    /\ UNCHANGED <<conf, pc, action, slots, itemsList, list, idx, first, second, calls,
                   response>>
    /\ UNCHANGED <<prev, inbox, parked, configFile, strPools>>

Next ==
    \/ \E act \in Actions, sl \in SeqsUpTo(Slots, MaxSlots) : Receive(act, sl)
    \/ ReceiveRead
    \/ GetItemsOk
    \/ GetItemsFail
    \/ LoopStep
    \/ LoopFail
    \/ Return
    \/ \E n \in Names : ExtAdd(n)
    \/ \E n \in Names : ExtRemove(n)

Spec == Init /\ [][Next]_vars

(* ------------------------------------------------- the composer alone *)
\* The composer functions are pure: they are applied here to every pair of
\* sequences of at most MaxSlots names and the pools of every action.  first
\* and second hold the arguments, response the returned value; pc tells which
\* function has returned: "composed" (combine_lists), "rendered"
\* (get_text_for_list with the READ pools, as read_list calls it) or
\* "enumerated" (get_default_list, whose returned pair is kept as the
\* category followed by the tokens of the text), or "raised" when str.format
\* raised in it (response then holds the exception).
InitCompose ==
    /\ conf = "loaded"
    /\ purchase = <<>>
    /\ pc = "compose"
    /\ action \in Actions
    /\ slots = <<>>
    /\ itemsList = <<>>
    /\ list = <<>>
    /\ idx = 1
    /\ first \in SeqsUpTo(Names, MaxSlots)
    /\ second \in SeqsUpTo(Names, MaxSlots)
    /\ calls = <<>>
    /\ response = NoResponse
    /\ extTouched = FALSE
    /\ prev = NoPrev
    /\ inbox = <<>>
    /\ parked = NoTask
    /\ configFile = "valid"
    /\ strPools = NoPools

\* combine_lists(pools of the action, first, second) returns
CallCombineLists ==
    /\ pc = "compose"
    /\ LET pools == PoolsFor(action)
       IN  response' \in CombineLists(pools.first, pools.conn, pools.end, pools.second,
                                      first, second)
    /\ pc' = IF Raised(response') THEN "raised" ELSE "composed"
    /\ UNCHANGED <<conf, purchase, action, slots, itemsList, list, idx, first, second,
                   calls, extTouched>>
    /\ UNCHANGED <<prev, inbox, parked, configFile, strPools>>

\* get_text_for_list(i18n.READ, first) returns
CallGetTextForList ==
    /\ pc = "compose"
    /\ response' \in GetTextForList(READ, first)
    /\ pc' = IF Raised(response') THEN "raised" ELSE "rendered"
    /\ UNCHANGED <<conf, purchase, action, slots, itemsList, list, idx, first, second,
                   calls, extTouched>>
    /\ UNCHANGED <<prev, inbox, parked, configFile, strPools>>

\* get_default_list(first) returns the pair (category, text)
CallGetDefaultList ==
    /\ pc = "compose"
    /\ \E d \in GetDefaultList(first) :
          /\ response' = IF Raised(d[2]) THEN d[2] ELSE <<d[1]>> \o d[2]
          /\ pc' = IF Raised(d[2]) THEN "raised" ELSE "enumerated"
    /\ UNCHANGED <<conf, purchase, action, slots, itemsList, list, idx, first, second,
                   calls, extTouched>>
    /\ UNCHANGED <<prev, inbox, parked, configFile, strPools>>

NextCompose ==
    \/ CallCombineLists
    \/ CallGetTextForList
    \/ CallGetDefaultList

SpecCompose == InitCompose /\ [][NextCompose]_vars

(* ----------------------------------- the composer with drawn pools *)
\* combine_lists and get_text_for_list take their pools as arguments.  Here
\* they are applied to pools that are drawn with the sequences, to tell on
\* which templates str.format raises and on which the text is empty.

\* the shapes of template a pool may hold: text alone, a field alone, text
\* with one, two or three positional fields, two and three fields without
\* text, and text with a field that has a name
Templates ==
    {<<"text">>, <<"{}">>, <<"text", "{}">>, <<"{}", "text">>, <<"{}", "{}">>,
     <<"{}", "text", "{}">>, <<"{}", "{}", "{}">>, <<"{}", "text", "{}", "{}">>,
     <<"text", "{other}">>}

\* the template holds text besides its replacement fields
HasText(t) == \E i \in 1..Len(t) : t[i] # "{}" /\ t[i] \notin NamedFields

\* the template holds text, its fields are positional and there are at most
\* n of them: .format called with n positional arguments fills every field
WellFormed(t, n) ==
    /\ HasText(t)
    /\ \A i \in 1..Len(t) : t[i] \notin NamedFields
    /\ Cardinality({i \in 1..Len(t) : t[i] = "{}"}) <= n

\* the pool keyed by category that holds the templates S in every category
Keyed(S) == [ONE |-> S, MULTI |-> S, NONE |-> S]

\* the templates that .format(strout) of get_text_for_list fills
ClauseTemplates == {t \in Templates : WellFormed(t, 1)}

\* the templates that .format(backup, strout) of combine_lists fills
ConnTemplates == {t \in Templates : WellFormed(t, 2)}

\* The pools that are drawn.  random.choice returns any template of the pool
\* it is given, so the texts of a pool are the texts of its templates taken
\* one by one: the pool of all templates gives every text that any non-empty
\* pool of these templates gives, and the pool of all well-formed templates
\* every text that any pool of well-formed templates gives.  The end pool is
\* never formatted and holds all templates.
PoolChoices ==
    {[first |-> Keyed(A), conn |-> C, end |-> Templates, second |-> Keyed(B)] :
        A \in {Templates, ClauseTemplates}, B \in {Templates, ClauseTemplates},
        C \in {Templates, ConnTemplates}}

InitPools ==
    /\ conf = "loaded"
    /\ purchase = <<>>
    /\ pc = "compose"
    /\ action = "none"
    /\ slots = <<>>
    /\ itemsList = <<>>
    /\ list = <<>>
    /\ idx = 1
    /\ first \in SeqsUpTo(Names, MaxCompose)
    /\ second \in SeqsUpTo(Names, MaxCompose)
    /\ calls = <<>>
    /\ response = NoResponse
    /\ extTouched = FALSE
    /\ prev = NoPrev
    /\ inbox = <<>>
    /\ parked = NoTask
    /\ configFile = "valid"
    /\ strPools \in PoolChoices

\* combine_lists(strPools.first, strPools.conn, strPools.end, strPools.second, first,
\* second) returns or raises
CombineDrawn ==
    /\ pc = "compose"
    /\ response' \in CombineLists(strPools.first, strPools.conn, strPools.end, strPools.second,
                                  first, second)
    /\ pc' = IF Raised(response') THEN "raised" ELSE "composed"
    /\ UNCHANGED <<conf, purchase, action, slots, itemsList, list, idx, first, second,
                   calls, extTouched>>
    /\ UNCHANGED <<prev, inbox, parked, configFile, strPools>>

\* get_text_for_list(strPools.first, first) returns or raises: the keyed pool is
\* handed to it as read_list hands it i18n.READ
RenderDrawn ==
    /\ pc = "compose"
    /\ response' \in GetTextForList(strPools.first, first)
    /\ pc' = IF Raised(response') THEN "raised" ELSE "rendered"
    /\ UNCHANGED <<conf, purchase, action, slots, itemsList, list, idx, first, second,
                   calls, extTouched>>
    /\ UNCHANGED <<prev, inbox, parked, configFile, strPools>>

NextPools ==
    \/ CombineDrawn
    \/ RenderDrawn

SpecPools == InitPools /\ [][NextPools]_vars

(* ------------------------------------------------------------ properties *)
\* the calls of this handling that are Gateway mutations
IsMutation(c) == c.op \in {"purchase_item", "recent_item"}

\* how often x occurs in the sequence s
Count(x, s) == Cardinality({i \in 1..Len(s) : s[i] = x})

\* how often the Gateway operation op was called for name n in this handling
CallCount(op, n) == Cardinality({i \in 1..Len(calls) : calls[i].op = op /\ calls[i].name = n})

\* the elements of s at the positions in A, in the order of s
Restrict(s, A) ==
    LET F[i \in 0..Len(s)] ==
            IF i = 0 THEN <<>>
            ELSE IF i \in A THEN Append(F[i - 1], s[i]) ELSE F[i - 1]
    IN  F[Len(s)]

\* itemsList names some item twice
RepeatsAName == \E i, j \in 1..Len(itemsList) : i < j /\ itemsList[i] = itemsList[j]

\* C1: add_item_int never calls the Gateway add (purchase_item) for a name that
\* is in the snapshot it took at its start, whatever the request (duplicates
\* included) and whatever the snapshot.
C1_NoAddForPresent ==
    action = "add" =>
        \A i \in 1..Len(calls) :
            calls[i].op = "purchase_item" => ~InList(calls[i].name, list)

\* C1 witness: an add handling has finished for a request that repeats a name,
\* with a name of the snapshot among the requested ones and adds made.
C1_Witness ==
    /\ pc = "done" /\ action = "add" /\ RepeatsAName
    /\ \E i \in 1..Len(itemsList) : InList(itemsList[i], list)
    /\ \E i \in 1..Len(calls) : calls[i].op = "purchase_item"

\* C2: delete_item_int never calls the Gateway mark-consumed (recent_item) for a
\* name absent from its snapshot; when no requested name is in the snapshot the
\* finished handling made no mutation call, removed is empty and not_found is
\* the request.
C2_NoRemoveForAbsent ==
    action = "del" =>
        /\ \A i \in 1..Len(calls) :
               calls[i].op = "recent_item" => InList(calls[i].name, list)
        /\ (pc = "done" /\ \A i \in 1..Len(itemsList) : ~InList(itemsList[i], list))
              => /\ \A i \in 1..Len(calls) : ~IsMutation(calls[i])
                 /\ first = <<>>
                 /\ second = itemsList

\* C2 witness: a remove handling has finished for a request none of whose names
\* was in the (non-empty) snapshot.
C2_Witness ==
    /\ pc = "done" /\ action = "del" /\ itemsList # <<>> /\ list # <<>>
    /\ \A i \in 1..Len(itemsList) : ~InList(itemsList[i], list)
    /\ second = itemsList

\* C3: the two sequences an engine function returns have lengths that sum to
\* the length of the request, and together hold exactly the requested names.
C3_Partition ==
    (pc = "done" /\ action \in Actions) =>
        /\ Len(first) + Len(second) = Len(itemsList)
        /\ Range(first) \cup Range(second) = Range(itemsList)

\* C3 witness: a finished handling with both sequences non-empty and a request
\* of three names.
C3_Witness ==
    /\ pc = "done" /\ action \in Actions
    /\ Len(itemsList) = 3 /\ first # <<>> /\ second # <<>>

\* C4 as claimed: add_item_int makes exactly one Gateway add call for each
\* distinct requested name absent from the snapshot, none for the others.
C4_OneAddPerDistinctName ==
    (pc = "done" /\ action = "add") =>
        \A n \in Names :
            CallCount("purchase_item", n) =
                IF n \in Range(itemsList) /\ ~InList(n, list) THEN 1 ELSE 0

\* C4 amended: add_item_int makes one Gateway add call for each occurrence in
\* the request of a name absent from the snapshot (a name requested k times is
\* added k times), and none for a name of the snapshot.
C4_OneAddPerOccurrence ==
    (pc = "done" /\ action = "add") =>
        \A n \in Names :
            CallCount("purchase_item", n) =
                IF ~InList(n, list) THEN Count(n, itemsList) ELSE 0

\* C4 witness: an add handling has finished in which a name absent from the
\* snapshot was requested twice and a name of the snapshot was requested too.
C4_Witness ==
    /\ pc = "done" /\ action = "add"
    /\ \E n \in Names : ~InList(n, list) /\ Count(n, itemsList) = 2
    /\ \E n \in Names : InList(n, list) /\ Count(n, itemsList) > 0

\* C5: no step of a check handling changes the remote list or makes a Gateway
\* mutation call.
C5_CheckNoMutation ==
    [][(action' = "chk" /\ <<pc, idx, calls>>' # <<pc, idx, calls>>)
          => /\ purchase' = purchase
             /\ \A i \in 1..Len(calls') : ~IsMutation(calls'[i])]_vars

\* C5 witness: a check handling has finished with a found and a missing name.
C5_Witness ==
    /\ pc = "done" /\ action = "chk" /\ first # <<>> /\ second # <<>>
    /\ purchase # <<>>

\* the names of the Gateway mutation calls of this handling that returned
AppliedNames == {calls[i].name : i \in {j \in 1..Len(calls) : IsMutation(calls[j]) /\ calls[j].ok}}

\* what holds of a handling of add or remove in which a Gateway call failed
FailureState ==
    (action \in {"add", "del"}) =>
        \* the failed call is the last call of the handling: it is not retried
        \* and no call follows it
        /\ \A i \in 1..Len(calls) : ~calls[i].ok => (i = Len(calls) /\ pc = "error")
        \* the handling ends with the error and without a response
        /\ pc = "error" => response = NoResponse
        /\ (pc = "error" /\ calls # <<>>) =>
              /\ ~calls[Len(calls)].ok
              \* a failed snapshot read is the only call
              /\ calls[Len(calls)].op = "get_items" => Len(calls) = 1
              \* no call undoes an earlier one
              /\ \A i \in 1..Len(calls) : IsMutation(calls[i]) => calls[i].op = MutationFor(action)
              \* the mutations made before the failure are still in effect
              /\ ~extTouched =>
                    \A n \in AppliedNames :
                        IF action = "add" THEN InList(n, purchase) ELSE ~InList(n, purchase)

\* C6: when a Gateway call of an add or remove handling fails (the snapshot
\* read or a mutation), the call is not retried, no further Gateway call is
\* made in the handling, the handling ends with the error and no response, and
\* the mutations applied before the failure stay applied.
C6_FailurePropagates ==
    /\ []FailureState
    /\ [][(pc = "error" /\ action \in {"add", "del"})
             => (pc' = "error" /\ calls' = calls) \/ (pc' = "idle" /\ calls' = <<>>)]_vars

\* C6 witness: an add handling has failed at its second mutation, after a
\* first one that was applied, with no external change in between.
C6_Witness ==
    /\ pc = "error" /\ action = "add" /\ ~extTouched
    /\ Len(calls) = 3 /\ calls[2].ok /\ ~calls[3].ok
    /\ first = <<calls[2].name>> /\ InList(calls[2].name, purchase)

\* C7: an add, remove or check handling of an intent without a slot named
\* "Items" returns a phrase of its own pool (ADD_WHAT, REM_WHAT, CHK_WHAT),
\* makes no Gateway call and raises no error.
C7_NoItemsNoGateway ==
    (action \in Actions /\ itemsList = <<>>) =>
        /\ pc = "done"
        /\ calls = <<>>
        /\ action = "add" => response \in ADD_WHAT
        /\ action = "del" => response \in REM_WHAT
        /\ action = "chk" => response \in CHK_WHAT

\* C7 witness: a remove handling has finished for an intent that carries only
\* slots of another name, in a process whose configuration is empty.
C7_Witness ==
    /\ pc = "done" /\ action = "del" /\ conf = "empty"
    /\ slots # <<>> /\ \A i \in 1..Len(slots) : slots[i].slot_name # "Items"
    /\ response \in REM_WHAT

\* C8: an engine function reads the remote list once per handling, before its
\* first mutation, and never again: get_items is the first call and no other
\* call of the handling, and every item is classified against that snapshot.
C8_SingleSnapshot ==
    action \in Actions =>
        /\ \A i \in 1..Len(calls) : calls[i].op = "get_items" <=> i = 1
        /\ (pc \in {"loop", "done"} /\ itemsList # <<>>) => (calls # <<>> /\ calls[1].ok)
        /\ \A i \in 1..Len(first) :
               IF action = "add" THEN ~InList(first[i], list) ELSE InList(first[i], list)
        /\ \A i \in 1..Len(second) :
               IF action = "add" THEN InList(second[i], list) ELSE ~InList(second[i], list)

\* C8 witness: an add handling has finished after two mutations, and the
\* remote list was changed by an external actor after the snapshot.
C8_Witness ==
    /\ pc = "done" /\ action = "add" /\ extTouched
    /\ Len(calls) = 3 /\ second # <<>>

\* C9: no name is in both returned sequences, also when the request repeats a
\* name and the batch has already mutated the list for an earlier occurrence.
C9_Disjoint ==
    action \in Actions => Range(first) \cap Range(second) = {}

\* C9 witness: an add handling has finished in which a name absent from the
\* snapshot was requested twice and is on the remote list now.
C9_Witness ==
    /\ pc = "done" /\ action = "add"
    /\ \E n \in Names :
          /\ Count(n, itemsList) = 2 /\ Count(n, first) = 2
          /\ ~InList(n, list) /\ InList(n, purchase)

\* C10: each returned sequence is a subsequence of the request in request
\* order: the items handled so far are split between the two sequences by
\* position, duplicates stay and nothing is re-ordered.
C10_RequestOrder ==
    action \in Actions =>
        LET k == Len(first) + Len(second) IN
        /\ k <= Len(itemsList)
        /\ \E A \in SUBSET (1..k) :
              /\ first = Restrict(SubSeq(itemsList, 1, k), A)
              /\ second = Restrict(SubSeq(itemsList, 1, k), (1..k) \ A)

\* C10 witness: a finished handling of a request x, y, x with both x in one
\* sequence and y in the other.
C10_Witness ==
    /\ pc = "done" /\ action \in Actions /\ Len(itemsList) = 3
    /\ itemsList[1] = itemsList[3] /\ itemsList[1] # itemsList[2]
    /\ first = <<itemsList[1], itemsList[3]>> /\ second = <<itemsList[2]>>

(* ------------------------------------------- properties of the composer *)
\* the placeholder tokens of the templates
Placeholders == {"{}", "{first}", "{last}"}

\* the fixed tokens of a set of templates
TokensOf(templates) == UNION {Range(t) : t \in templates} \ Placeholders

\* the fixed tokens of the templates of a pool keyed by category
ClauseTokens(pool) == TokensOf(pool.ONE \cup pool.MULTI \cup pool.NONE)

\* the item names of a text, in the order they occur in it
NamesOf(text) == SelectSeq(text, LAMBDA x : x \in Names)

\* C11 as claimed: combine_lists with both sequences empty returns one phrase
\* of the action's fallback ("what") pool and uses neither the end pool nor
\* the combiner pool.
C11_BothEmptyFallback ==
    (pc = "composed" /\ first = <<>> /\ second = <<>>) =>
        /\ response \in WhatFor(action)
        /\ response \notin PoolsFor(action).end

\* C11 amended: combine_lists with both sequences empty returns exactly one
\* phrase of the end pool it was handed; no combiner, primary or secondary
\* phrase is part of it, and no fallback pool is used.
C11_BothEmptyEnd ==
    (pc = "composed" /\ first = <<>> /\ second = <<>>) =>
        /\ response \in PoolsFor(action).end
        /\ response \notin WhatFor(action)
        /\ Range(response) \cap (TokensOf(PoolsFor(action).conn)
                                    \cup ClauseTokens(PoolsFor(action).first)
                                    \cup ClauseTokens(PoolsFor(action).second)) = {}

\* C11 witness: combine_lists has returned an end phrase of the add pools for
\* two empty sequences.
C11_Witness ==
    /\ pc = "composed" /\ action = "add" /\ first = <<>> /\ second = <<>>
    /\ response \in ADD_END

\* C12: combine_lists with a filled first and an empty second sequence returns
\* the first clause, rendered from the first pool, directly followed by one
\* phrase of the end pool; no combiner and no second-pool phrase is in it.
C12_FirstOnly ==
    (pc = "composed" /\ first # <<>> /\ second = <<>>) =>
        /\ \E h \in GetTextForList(PoolsFor(action).first, first), e \in PoolsFor(action).end :
              response = h \o e
        /\ Range(response) \cap (TokensOf(PoolsFor(action).conn)
                                    \cup ClauseTokens(PoolsFor(action).second)) = {}

\* C12 witness: combine_lists has returned for three first items and no
\* second item, and the text ends with an end phrase of the add pools.
C12_Witness ==
    /\ pc = "composed" /\ action = "add" /\ Len(first) = 3 /\ second = <<>>
    /\ response[Len(response)] = "ADD_END_b"

\* C13: combine_lists with an empty first and a filled second sequence returns
\* the second clause alone: no first-pool phrase, no combiner and no end
\* phrase is in it.
C13_SecondOnly ==
    (pc = "composed" /\ first = <<>> /\ second # <<>>) =>
        /\ response \in GetTextForList(PoolsFor(action).second, second)
        /\ Range(response) \cap (TokensOf(PoolsFor(action).conn)
                                    \cup TokensOf(PoolsFor(action).end)
                                    \cup ClauseTokens(PoolsFor(action).first)) = {}

\* C13 witness: combine_lists has returned the second clause of the remove
\* pools for no first item and two second items.
C13_Witness ==
    /\ pc = "composed" /\ action = "del" /\ first = <<>> /\ Len(second) = 2
    /\ response[1] = "REM_F_MULTI"

\* C14: combine_lists with both sequences filled returns a combiner template
\* with the first clause in its first place and the second clause in its
\* second place; no end phrase is in it.
C14_BothFilled ==
    (pc = "composed" /\ first # <<>> /\ second # <<>>) =>
        /\ \E c \in PoolsFor(action).conn :
           \E h \in GetTextForList(PoolsFor(action).first, first) :
           \E t \in GetTextForList(PoolsFor(action).second, second) :
              /\ c[1] = "{}" /\ c[Len(c)] = "{}"
              /\ response = h \o SubSeq(c, 2, Len(c) - 1) \o t
        /\ Range(response) \cap TokensOf(PoolsFor(action).end) = {}

\* C14 witness: combine_lists has returned for the check pools with one found
\* and two missing names.
C14_Witness ==
    /\ pc = "composed" /\ action = "chk" /\ Len(first) = 1 /\ Len(second) = 2
    /\ \E i \in 1..Len(response) : response[i] = "CHK_CONN"

\* every pool is a non-empty collection of non-empty templates
NonEmptyPools(p) ==
    /\ \A c \in {"ONE", "MULTI", "NONE"} :
          /\ p.first[c] # {} /\ p.second[c] # {}
          /\ <<>> \notin p.first[c] \cup p.second[c]
    /\ p.conn # {} /\ p.end # {}
    /\ <<>> \notin p.conn \cup p.end

\* every template of the clause pools is filled by one argument, every
\* combiner template by two, and every one of them holds text
WellFormedPools(p) ==
    /\ \A c \in {"ONE", "MULTI", "NONE"} :
          \A t \in p.first[c] \cup p.second[c] : WellFormed(t, 1)
    /\ \A t \in p.conn : WellFormed(t, 2)

C16_Category ==
    pc = "enumerated" =>
        /\ Len(first) = 0 => response = <<"NONE">>
        /\ Len(first) = 1 => response = <<"ONE", first[1]>>
        /\ Len(first) >= 2 => response[1] = "MULTI"

\* C16 witness: get_default_list has returned MULTI for exactly two items.
C16_Witness ==
    pc = "enumerated" /\ Len(first) = 2 /\ response[1] = "MULTI"

\* C17: for two items or more the text of get_default_list is the
\* GENERAL_LIST template with the items but the last, joined by ", " in
\* order, in its first place and the last item in its last place: every item
\* occurs once per occurrence, in order, and the text ends with the last item.
C17_Enumeration ==
    (pc = "enumerated" /\ Len(first) >= 2) =>
        LET text == Tail(response)
            n == Len(first)
        IN  /\ Len(text) = 2 * n - 1
            /\ \A i \in 1..(n - 1) : text[2 * i - 1] = first[i]
            /\ \A i \in 1..(n - 2) : text[2 * i] = ", "
            /\ <<text[2 * n - 2]>> \in {SubSeq(g, 2, Len(g) - 1) : g \in GENERAL_LIST}
            /\ text[2 * n - 1] = first[n]
            /\ NamesOf(text) = first

\* C17 witness: get_default_list has returned the text of three items, the
\* first of which is requested twice.
C17_Witness ==
    /\ pc = "enumerated" /\ Len(first) = 3 /\ first[1] = first[3] /\ first[1] # first[2]
    /\ Len(response) = 6

(* ------------------------------------------ properties of the responses *)
\* some token of the text is one of the given tokens
HasTokenOf(text, tokens) == \E i \in 1..Len(text) : text[i] \in tokens

\* C18: the response to a non-empty request of the add, remove or check
\* handler names every requested item: the names of the first sequence in the
\* clause of the first pool, those of the second sequence in the clause of
\* the second pool, the clauses joined by the combiner when both are filled.
C18_ResponseNamesAll ==
    (pc = "done" /\ action \in Actions /\ itemsList # <<>>) =>
        LET pools == PoolsFor(action) IN
        /\ Range(itemsList) \subseteq Range(response)
        /\ NamesOf(response) = first \o second
        /\ (first # <<>> /\ second = <<>>) =>
              /\ HasTokenOf(response, ClauseTokens(pools.first))
              /\ ~HasTokenOf(response, ClauseTokens(pools.second))
        /\ (first = <<>> /\ second # <<>>) =>
              /\ HasTokenOf(response, ClauseTokens(pools.second))
              /\ ~HasTokenOf(response, ClauseTokens(pools.first))
        /\ (first # <<>> /\ second # <<>>) =>
              \E k \in 1..Len(response) :
                 LET head == SubSeq(response, 1, k - 1)
                     tail == SubSeq(response, k + 1, Len(response))
                 IN  /\ response[k] \in TokensOf(pools.conn)
                     /\ NamesOf(head) = first
                     /\ HasTokenOf(head, ClauseTokens(pools.first))
                     /\ ~HasTokenOf(head, ClauseTokens(pools.second))
                     /\ NamesOf(tail) = second
                     /\ HasTokenOf(tail, ClauseTokens(pools.second))
                     /\ ~HasTokenOf(tail, ClauseTokens(pools.first))

\* C18 witness: the add handler has answered the request milk, eggs on a list
\* that held milk: eggs was added, milk was there.
C18_Witness ==
    /\ pc = "done" /\ action = "add" /\ itemsList = <<"milk", "eggs">>
    /\ first = <<"eggs">> /\ second = <<"milk">>
    /\ NamesOf(response) = <<"eggs", "milk">>

\* the category of a sequence of the given length
CategoryOf(n) == IF n = 0 THEN "NONE" ELSE IF n = 1 THEN "ONE" ELSE "MULTI"

\* the number of fixed tokens of a template
FixedLen(t) == Len(SelectSeq(t, LAMBDA x : x \notin Placeholders))

\* the number of tokens of the enumeration of n items: the items, the ", "
\* between them and the connector before the last
EnumLen(n) == IF n = 0 THEN 0 ELSE 2 * n - 1

\* C20: the read handler narrates exactly the names of the purchase list as
\* the Gateway returns them, in that order, in a phrase of the READ pool of
\* the list's category (NONE for an empty list); its only Gateway call is the
\* read and it leaves the remote list as it is.
C20_ReadNarrates ==
    [][(pc = "get_items" /\ action = "read" /\ pc' = "done") =>
          /\ purchase' = purchase
          /\ calls' = <<Call("get_items", "", TRUE)>>
          /\ NamesOf(response') = purchase
          /\ \E t \in READ[CategoryOf(Len(purchase))] :
                /\ TokensOf({t}) \subseteq Range(response')
                /\ Len(response') = FixedLen(t) + (Len(t) - FixedLen(t)) * EnumLen(Len(purchase))]_vars

\* C20 witness: the read handler has narrated a list of two names, eggs first.
C20_Witness ==
    /\ pc = "done" /\ action = "read" /\ Len(list) = 2 /\ list[1] = "eggs"
    /\ NamesOf(response) = list /\ response[1] = "READ_MULTI"

(* ------------------------------------------- properties of the handlers *)
\* the positions of the slots named "Items"
ItemPositions == {i \in 1..Len(slots) : slots[i].slot_name = "Items"}

\* C21: the request list of the add, remove and check handlers is the raw
\* texts of the intent's slots named "Items", in slot order: the k-th "Items"
\* slot gives the k-th requested name, a slot of another name gives nothing,
\* and no "Items" slot is dropped, merged or de-duplicated.
C21_RequestIsItemsSlots ==
    action \in Actions =>
        /\ Len(itemsList) = Cardinality(ItemPositions)
        /\ \A i \in ItemPositions :
               itemsList[Cardinality({j \in ItemPositions : j <= i})] = slots[i].raw_value

\* C21 witness: a handler has taken the request milk, milk from an intent
\* whose slots are "Items" milk, a slot of another name, "Items" milk.
C21_Witness ==
    /\ action \in Actions /\ pc = "done" /\ Len(slots) = 3
    /\ slots[1].slot_name = "Items" /\ slots[2].slot_name # "Items"
    /\ slots[3] = slots[1]
    /\ itemsList = <<slots[1].raw_value, slots[3].raw_value>>

\* the loop body has handled the item at idx in this step
ItemHandled == pc = "loop" /\ Len(first') + Len(second') = Len(first) + Len(second) + 1

\* C24: a change an external actor makes to the remote list after the snapshot
\* is neither detected nor corrected.  add_item_int calls purchase_item for, and
\* reports as added, a name absent from the snapshot also when the name is on
\* the remote list by now; delete_item_int calls recent_item for, and reports
\* as removed, a name of the snapshot also when it is off the remote list by
\* now; and neither reads the list again.
C24_StaleSnapshotUsed ==
    [][(ItemHandled /\ action \in {"add", "del"}) =>
          LET item == itemsList[idx] IN
          /\ (action = "add" /\ ~InList(item, list)) =>
                /\ calls' = Append(calls, Call("purchase_item", item, TRUE))
                /\ first' = Append(first, item)
                /\ second' = second
          /\ (action = "del" /\ InList(item, list)) =>
                /\ calls' = Append(calls, Call("recent_item", item, TRUE))
                /\ first' = Append(first, item)
                /\ second' = second]_vars

\* C24 witness: an add handling that read an empty list has finished; eggs,
\* requested last, was put on the remote list by an external actor before the
\* handling added milk, and was still added and reported as added.
C24_Witness ==
    /\ pc = "done" /\ action = "add" /\ extTouched /\ list = <<>>
    /\ itemsList = <<"milk", "eggs">> /\ first = itemsList
    /\ purchase = <<"eggs", "milk">>
    /\ calls[3] = Call("purchase_item", "eggs", TRUE)

\* the names of the Gateway mutation calls among cs, in call order
MutationNames(cs) ==
    LET ms == SelectSeq(cs, IsMutation)
    IN  [i \in 1..Len(ms) |-> ms[i].name]

\* the Gateway calls among cs that returned
Returned(cs) == SelectSeq(cs, LAMBDA c : c.ok)

\* C26: the names add_item_int passes to purchase_item (delete_item_int to
\* recent_item), in call order, are the added (removed) sequence: same names,
\* same order, same multiplicity.  A name is appended only after its call
\* returned: at every moment the sequence is the names of the calls that have
\* returned, and a call that raised has its name in no sequence.
C26_CallsAreResult ==
    action \in {"add", "del"} =>
        /\ \A i \in 1..Len(calls) : IsMutation(calls[i]) => calls[i].op = MutationFor(action)
        /\ MutationNames(Returned(calls)) = first
        /\ pc = "done" => MutationNames(calls) = first
        /\ (pc = "error" /\ calls # <<>> /\ IsMutation(calls[Len(calls)])) =>
              MutationNames(calls) = Append(first, calls[Len(calls)].name)

\* C26 witness: an add handling has made the calls for eggs, milk, eggs in
\* that order and returned them as added.
C26_Witness ==
    /\ pc = "done" /\ action = "add" /\ first = <<"eggs", "milk", "eggs">>
    /\ MutationNames(calls) = first

\* C27: the add, remove and check handlers call combine_lists only for a
\* non-empty request, and then with two sequences that together hold every
\* requested name, so never with both sequences empty: the response to a
\* non-empty request is never the bare end phrase of combine_lists' both-empty
\* branch, and an empty request is answered from the "what" pool without a
\* call of combine_lists.
C27_CombineNeverBothEmpty ==
    (pc = "done" /\ action \in Actions) =>
        LET pools == PoolsFor(action) IN
        IF itemsList = <<>>
        THEN /\ first = <<>> /\ second = <<>>
             /\ response \in WhatFor(action)
             /\ response \notin CombineLists(pools.first, pools.conn, pools.end,
                                             pools.second, <<>>, <<>>)
        ELSE /\ first # <<>> \/ second # <<>>
             /\ Range(first) \cup Range(second) = Range(itemsList)
             /\ response \in CombineLists(pools.first, pools.conn, pools.end,
                                          pools.second, first, second)
             /\ response \notin pools.end

\* C27 witness: a remove handling of one name that is not on the list has
\* finished: combine_lists was called with removed empty and failed filled.
C27_Witness ==
    /\ pc = "done" /\ action = "del" /\ Len(itemsList) = 1
    /\ first = <<>> /\ second = itemsList
    /\ response \in GetTextForList(REM_F, second)

(* ---------------------------------------------------------- termination *)
\* The handlers under the condition that every Gateway call returns or
\* raises: a handling that waits for its read, or stands in its loop, takes
\* its next step.
SpecLive ==
    /\ Spec
    /\ WF_vars(GetItemsOk \/ GetItemsFail)
    /\ WF_vars(LoopStep \/ LoopFail)

\* a handling is under way
InHandling == pc \in {"get_items", "loop"}

\* the Gateway calls of a handling are bounded by its request: at most one
\* read, at most one mutation for each item handled, and none by read_list
CallsBounded ==
    action \in Actions \cup {"read"} =>
        /\ Cardinality({i \in 1..Len(calls) : calls[i].op = "get_items"}) <= 1
        /\ Len(MutationNames(calls)) <= Len(itemsList)
        /\ Len(calls) <= 1 + Len(itemsList)
        /\ pc = "loop" => Len(MutationNames(calls)) <= idx - 1
        /\ \A n \in Names : Count(n, MutationNames(calls)) <= Count(n, itemsList)
        /\ action = "read" => MutationNames(calls) = <<>>

\* C30: every handling terminates when each Gateway call returns or raises.
\* A handling of a request of n names makes at most one Gateway read and at
\* most n Gateway mutations, none of them repeated, and a handling under way
\* comes to return its response or to leave with its error.
C30_Terminates ==
    /\ []CallsBounded
    /\ InHandling ~> (\/ pc = "done" /\ response # NoResponse
                      \/ pc = "error" /\ response = NoResponse)

\* C30 witness: an add handling of three names has returned its response
\* after one read and three mutations.
C30_Witness ==
    /\ pc = "done" /\ action = "add" /\ Len(itemsList) = 3
    /\ Len(calls) = 4 /\ Len(MutationNames(calls)) = 3 /\ response # NoResponse

(* -------------------------------------------------------------- startup *)
\* the process before line 183 of __main__ has run: conf is not bound yet
InitStartup ==
    /\ conf = "unset"
    /\ purchase \in {p \in SeqsUpTo(Names, MaxList) : NoDup(p)}
    /\ pc = "start"
    /\ action = "none"
    /\ slots = <<>>
    /\ itemsList = <<>>
    /\ list = <<>>
    /\ idx = 1
    /\ first = <<>>
    /\ second = <<>>
    /\ calls = <<>>
    /\ response = NoResponse
    /\ extTouched = FALSE
    /\ prev = NoPrev
    /\ inbox = <<>>
    /\ parked = NoTask
    /\ configFile \in ConfigFiles
    /\ strPools = NoPools

\* __main__: conf = read_configuration_file(CONFIG_INI), then app.run() waits
\* for intents; an exception that leaves read_configuration_file ends the
\* process before app.run() is called
Startup ==
    /\ pc = "start"
    /\ LET result == ReadConfigurationFile(configFile)
       IN  IF result = "UnicodeDecodeError"
           THEN /\ pc' = "crashed"
                /\ conf' = conf
           ELSE /\ pc' = "idle"
                /\ conf' = result
    /\ UNCHANGED <<purchase, action, slots, itemsList, list, idx, first, second, calls,
                   response, extTouched>>
    /\ UNCHANGED <<prev, inbox, parked, configFile, strPools>>

NextStartup ==
    \/ Startup
    \/ \E act \in Actions, sl \in SeqsUpTo(Slots, MaxSlots) : Receive(act, sl)
    \/ ReceiveRead
    \/ GetItemsOk
    \/ GetItemsFail
    \/ LoopStep
    \/ LoopFail
    \/ Return
    \/ \E n \in Names : ExtAdd(n)
    \/ \E n \in Names : ExtRemove(n)

SpecStartup == InitStartup /\ [][NextStartup]_vars

\* the configuration file could not be loaded: it is missing or cannot be
\* opened, or it cannot be decoded or parsed
LoadFailed == configFile \in {"missing", "malformed", "undecodable"}

\* C23 as claimed: a configuration file that is missing, unreadable or
\* malformed stops the process at startup, so the application never waits for
\* or handles an intent with a configuration that failed to load.
C23_ConfigFailureFatal ==
    LoadFailed => pc \in {"start", "crashed"}

(* ------------------------------------------------- two handlings in a row *)
\* Runs of two handlings of add, remove or check in which every Gateway call
\* returns and the external actor acts only between the two handlings.  When
\* the first handler returns, what it was given and what it returned is kept
\* in prev, together with the remote list it left.  The runs are those of a
\* process whose configuration holds the secret section: with any other
\* configuration get_bring raises and no handling with a request returns.
InitTwice == Init /\ conf = "loaded"

\* the slots named "Items"
ItemSlots == {sl \in Slots : sl.slot_name = "Items"}

\* an intent whose slots are all named "Items" arrives
ReceiveItems(act, sl) == Receive(act, sl)

\* the first handler returns EndSession(text); the handling is recorded
ReturnKeep ==
    /\ pc = "done"
    /\ prev = NoPrev
    /\ prev' = [action |-> action, itemsList |-> itemsList, list |-> list,
                first |-> first, second |-> second, after |-> purchase]
    /\ pc' = "idle"
    /\ action' = "none"
    /\ slots' = <<>>
    /\ itemsList' = <<>>
    /\ list' = <<>>
    /\ idx' = 1
    /\ first' = <<>>
    /\ second' = <<>>
    /\ calls' = <<>>
    /\ response' = NoResponse
    /\ extTouched' = FALSE
    /\ UNCHANGED <<conf, purchase>>
    /\ UNCHANGED <<inbox, parked, configFile, strPools>>

\* somebody else puts a name on the remote list between the two handlings
ExtAddBetween(n) == pc = "idle" /\ prev # NoPrev /\ ExtAdd(n)

\* somebody else takes a name off the remote list between the two handlings
ExtRemoveBetween(n) == pc = "idle" /\ prev # NoPrev /\ ExtRemove(n)

NextTwice ==
    \/ \E act \in Actions, sl \in SeqsUpTo(ItemSlots, MaxRequest) : ReceiveItems(act, sl)
    \/ GetItemsOk
    \/ LoopStep
    \/ ReturnKeep
    \/ \E n \in Names : ExtAddBetween(n)
    \/ \E n \in Names : ExtRemoveBetween(n)

SpecTwice == InitTwice /\ [][NextTwice]_vars

\* C19: two check handlings in a row with the same request, the second of
\* which reads the remote list as the first left it, return the same found
\* and the same missing sequence.
C19_CheckTwice ==
    (/\ pc = "done" /\ action = "chk"
     /\ prev.action = "chk" /\ prev.itemsList = itemsList
     /\ list = prev.after)
        => (first = prev.first /\ second = prev.second)

\* C19 witness: the second of two check handlings with the same request has
\* returned, on an unchanged list, with a found and a missing name.
C19_Witness ==
    /\ pc = "done" /\ action = "chk"
    /\ prev.action = "chk" /\ prev.itemsList = itemsList /\ list = prev.after
    /\ first # <<>> /\ second # <<>>

RECURSIVE Replay(_, _)
\* the list p after the Gateway calls cs that returned, in call order
Replay(cs, p) ==
    IF cs = <<>> THEN p
    ELSE Replay(Tail(cs), IF Head(cs).ok
                          THEN ApplyGateway(Head(cs).op, Head(cs).name, p)
                          ELSE p)

\* C25: no list state is carried from one handling to the next.  The snapshot
\* of every handling with a non-empty request is the remote list as it was at
\* that handling's read (the remote list now is the snapshot with the
\* handling's own mutations applied), whatever an earlier handling read or
\* changed and whatever an external actor changed before the read; a check
\* handling reports exactly the requested names on the remote list as found.
C25_NoCarriedState ==
    (action \in Actions /\ pc \in {"loop", "done"} /\ itemsList # <<>>) =>
        /\ purchase = Replay(Tail(calls), list)
        /\ action = "chk" =>
              /\ list = purchase
              /\ \A i \in 1..Len(first) : InList(first[i], purchase)
              /\ \A i \in 1..Len(second) : ~InList(second[i], purchase)

\* C25 witness: after an add handling that added milk and eggs to a list it
\* read as empty, and an external removal of eggs, a check handling of milk,
\* eggs has found milk and missed eggs.
C25_Witness ==
    /\ pc = "done" /\ action = "chk" /\ itemsList = <<"milk", "eggs">>
    /\ prev.action = "add" /\ prev.list = <<>> /\ prev.first = <<"milk", "eggs">>
    /\ prev.after = <<"milk", "eggs">>
    /\ list = <<"milk">> /\ first = <<"milk">> /\ second = <<"eggs">>

\* this handling has the (non-empty) request of the handling before it, of
\* the same action, and has read the remote list as that handling left it
SameRequestAgain(act) ==
    /\ action = act /\ prev.action = act /\ prev.itemsList = itemsList
    /\ itemsList # <<>>
    /\ pc \in {"loop", "done"} /\ list = prev.after

\* C28: with a Gateway whose purchase_item puts the name on the purchase list
\* and with no external actor, a finished add handling of a request leaves every requested
\* name and every name of its snapshot on the purchase list; a second add
\* handling with the same request then makes no Gateway mutation, leaves the
\* list as it is and returns an empty added sequence.
C28_AddIdempotent ==
    /\ (pc = "done" /\ action = "add" /\ itemsList # <<>>) =>
          /\ \A i \in 1..Len(itemsList) : InList(itemsList[i], purchase)
          /\ \A i \in 1..Len(list) : InList(list[i], purchase)
    /\ SameRequestAgain("add") =>
          /\ \A i \in 1..Len(calls) : ~IsMutation(calls[i])
          /\ purchase = list
          /\ first = <<>>
          /\ pc = "done" => second = itemsList

\* C28 witness: the second of two add handlings with the same request of two
\* names has finished without adding; the first had added a name to a
\* non-empty list.
C28_Witness ==
    /\ SameRequestAgain("add") /\ pc = "done" /\ Len(itemsList) = 2
    /\ prev.first # <<>> /\ prev.list # <<>>
    /\ first = <<>> /\ second = itemsList /\ Len(calls) = 1

\* C29: with a Gateway whose recent_item takes the name off the purchase list
\* and with no external actor, a finished remove handling of a request leaves no
\* requested name on the purchase list and every other name of its snapshot
\* on it, in the order they had; a check handling with the same request that
\* follows reports every name as missing and none as found.
C29_RemoveThenCheck ==
    /\ (pc = "done" /\ action = "del" /\ itemsList # <<>>) =>
          /\ \A i \in 1..Len(itemsList) : ~InList(itemsList[i], purchase)
          /\ purchase = SelectSeq(list, LAMBDA n : n \notin Range(itemsList))
    /\ (/\ pc = "done" /\ action = "chk" /\ itemsList # <<>>
        /\ prev.action = "del" /\ prev.itemsList = itemsList /\ list = prev.after) =>
          /\ first = <<>>
          /\ second = itemsList

\* C29 witness: a check handling has reported milk as missing after a remove
\* handling of milk that took it off a list of two names.
C29_Witness ==
    /\ pc = "done" /\ action = "chk" /\ itemsList = <<"milk">>
    /\ prev.action = "del" /\ prev.itemsList = itemsList /\ list = prev.after
    /\ Len(prev.list) = 2 /\ prev.first = <<"milk">> /\ Len(list) = 1
    /\ first = <<>> /\ second = <<"milk">>

(* ----------------------------------------------------- the dispatch loop *)
\* Intents arrive while a handler runs.  The application's event loop starts
\* the handler coroutine of a waiting intent, or resumes a suspended one, when
\* the coroutine that has the loop gives it back: when it has returned, or at
\* an await.  The running handling is held in the variables of the handlers,
\* a suspended one in parked; at most one intent waits and at most one
\* coroutine is suspended.

\* mutant: the Gateway calls are awaited, as with an asynchronous client
AwaitPointsGateway == {"get_items", "loop"}

\* the positions at which a handler coroutine gives the event loop back before
\* it returns: addItem, delItem, readList and checkList hold no await, their
\* bodies call the synchronous add_item, delete_item, read_list, check_list
AwaitPoints == {}

\* the handling that has the event loop
Running ==
    [pc |-> pc, action |-> action, slots |-> slots, itemsList |-> itemsList, list |-> list,
     idx |-> idx, first |-> first, second |-> second, calls |-> calls,
     response |-> response]

\* the handling t gets the event loop
SetRunning(t) ==
    /\ pc' = t.pc
    /\ action' = t.action
    /\ slots' = t.slots
    /\ itemsList' = t.itemsList
    /\ list' = t.list
    /\ idx' = t.idx
    /\ first' = t.first
    /\ second' = t.second
    /\ calls' = t.calls
    /\ response' = t.response

\* the intents that arrive
Intents ==
    {[action |-> act, slots |-> sl] : act \in Actions, sl \in SeqsUpTo(ItemSlots, MaxRequest)}
        \cup {[action |-> "read", slots |-> <<>>]}

\* a handler that has run up to its first Gateway call: the slot loop, the
\* len(itemsList) > 0 test and get_bring(conf), as in Receive and ReceiveRead
Started(act, sl) ==
    IF act = "read"
    THEN {[NoTask EXCEPT !.action = "read",
                         !.pc = IF GetBringRaises(conf) THEN "error" ELSE "get_items"]}
    ELSE IF ItemsOf(sl) = <<>>
    THEN {[NoTask EXCEPT !.action = act, !.slots = sl, !.pc = "done", !.response = w] :
             w \in WhatFor(act)}
    ELSE {[NoTask EXCEPT !.action = act, !.slots = sl, !.itemsList = ItemsOf(sl),
                         !.pc = IF GetBringRaises(conf) THEN "error" ELSE "get_items"]}

\* an intent arrives and waits for the event loop
Arrive(i) ==
    /\ inbox = <<>>
    /\ inbox' = <<i>>
    /\ UNCHANGED <<conf, purchase, pc, action, slots, itemsList, list, idx, first, second,
                   calls, response, extTouched, prev, parked, configFile, strPools>>

\* the event loop has control: it starts the handler of the waiting intent
\* (suspending the coroutine that stands at an await) or resumes the
\* suspended coroutine
EventLoopTurn ==
    /\ pc = "idle" \/ pc \in AwaitPoints
    /\ LET atAwait == IF pc = "idle" THEN NoTask ELSE Running
           ready == (IF inbox # <<>> /\ (pc = "idle" \/ parked = NoTask)
                     THEN {"intent"} ELSE {})
                        \cup (IF parked # NoTask THEN {"parked"} ELSE {})
       IN  \E r \in ready :
              IF r = "intent"
              THEN /\ \E t \in Started(Head(inbox).action, Head(inbox).slots) : SetRunning(t)
                   /\ inbox' = Tail(inbox)
                   /\ parked' = IF pc = "idle" THEN parked ELSE Running
              ELSE /\ SetRunning(parked)
                   /\ inbox' = inbox
                   /\ parked' = atAwait
    /\ UNCHANGED <<conf, purchase, extTouched, prev, configFile, strPools>>

NextDispatch ==
    \/ \E i \in Intents : Arrive(i)
    \/ EventLoopTurn
    \/ GetItemsOk
    \/ GetItemsFail
    \/ LoopStep
    \/ LoopFail
    \/ Return

SpecDispatch == Init /\ [][NextDispatch]_vars

\* the running handling makes a Gateway call in this step
GatewayCallStep ==
    /\ Len(calls') = Len(calls) + 1
    /\ SubSeq(calls', 1, Len(calls)) = calls
    /\ parked' = parked

\* C22: intent handlings are serialized.  No handler coroutine is ever
\* suspended part-way; the handler of a waiting intent is started only when
\* the handling before it has returned; and while a handling makes its Gateway
\* calls no other handling is in progress, so the Gateway calls of two
\* handlings never interleave.
C22_Serialized ==
    /\ [](parked = NoTask)
    /\ [][(Len(inbox') < Len(inbox)) => pc = "idle"]_vars
    /\ [][GatewayCallStep => (parked = NoTask /\ pc' \in {"loop", "done", "error"})]_vars

\* C22 witness: an intent with a request is waiting while the running add
\* handling, which has read the list and made a mutation, is not finished.
C22_Witness ==
    /\ pc = "loop" /\ action = "add" /\ Len(calls) = 2
    /\ inbox # <<>> /\ Head(inbox).action \in Actions /\ Head(inbox).slots # <<>>
    /\ parked = NoTask

====
